---- MODULE Spec2Model ----
(***************************************************************************)
(* Blocking query execution of sqlx: the SyncExecutor trait                *)
(* (sqlx-core/src/sync_executor.rs) and its SQLite implementation          *)
(* (sqlx-sqlite/src/connection/sync.rs).                                   *)
(*                                                                         *)
(* One connection, one SQL text.  The native engine (execute::iter) is an  *)
(* external collaborator: what it answers for the SQL text is the value    *)
(* db, either a failure to open the result stream or the finite sequence   *)
(* of items its iterator produces.  A lazy stream returned to the caller   *)
(* is the pair (iter, out): the items the underlying iterator has not      *)
(* produced yet and the items already handed to the caller.                *)
(***************************************************************************)
EXTENDS Integers, Sequences, FiniteSets

\* Longest engine stream considered.
MaxLen == 3
\* Cap of the engine-invocation counter.
MaxEngineCalls == 2
\* Largest row limit handed to SyncSqliteConnection::execute.
MaxLimit == 2
\* Most parameter type hints handed to prepare_with.
MaxParameters == 2

----------------------------------------------------------------------------
\* Values

\* SqliteRow values (the column the tests read).
Rows == {15, 39}
\* SqliteQueryResult values: changes and last_insert_rowid.
QueryResults == {[changes |-> 1, last_insert_rowid |-> 7],
                 [changes |-> 2, last_insert_rowid |-> 9]}
\* Errors of the native engine.
EngineErrors == {"Database1", "Database2"}
\* Error::Encode and Error::RowNotFound.
EncodeError == "Encode"
RowNotFound == "RowNotFound"
NoError == "-"

\* <SqliteQueryResult as Default>::default()
DefaultQueryResult == [changes |-> 0, last_insert_rowid |-> 0]

\* Result<Either<SqliteQueryResult, SqliteRow>, Error>
Left(qr) == [tag |-> "Left", qr |-> qr, row |-> 0, err |-> NoError]
Right(row) == [tag |-> "Right", qr |-> DefaultQueryResult, row |-> row, err |-> NoError]
Err(e) == [tag |-> "Err", qr |-> DefaultQueryResult, row |-> 0, err |-> e]

Items == {Left(qr) : qr \in QueryResults} \cup {Right(r) : r \in Rows}
           \cup {Err(e) : e \in EngineErrors}

\* Option<usize>
None == <<>>
Some(x) == <<x>>

RECURSIVE SeqsUpTo(_, _)
SeqsUpTo(S, n) ==
  IF n = 0 THEN {<<>>}
  ELSE LET shorter == SeqsUpTo(S, n - 1)
       IN shorter \cup {Append(s, x) : s \in {t \in shorter : Len(t) = n - 1}, x \in S}

\* What execute::iter answers: Err(error), or Ok(iterator over items).
EngineOutcomes ==
  {[ok |-> FALSE, err |-> e, items |-> <<>>] : e \in EngineErrors}
    \cup {[ok |-> TRUE, err |-> NoError, items |-> s] : s \in SeqsUpTo(Items, MaxLen)}

\* A query (impl Execute): the outcome of take_arguments and the persistence hint.
Queries == [args : {"none", "some", "encode_err"}, persistent : BOOLEAN]

\* SQL texts, the engine's statement metadata, and parameter type hints.
Sqls == {"SELECT 15", "SELECT ?1"}
Metadata == {"columns1", "columns2"}
TypeInfos == {"INTEGER", "TEXT"}

\* What worker::prepare answers: Err(error), or Ok(SqliteStatement<'static>)
\* holding the engine's own copy of the text and the metadata.
PrepareOutcomes ==
  {[ok |-> FALSE, err |-> e, sql |-> "", meta |-> ""] : e \in EngineErrors}
    \cup {[ok |-> TRUE, err |-> NoError, sql |-> t, meta |-> m] : t \in Sqls, m \in Metadata}

\* Nothing prepared yet.
NoPrepared ==
  [sql |-> "", parameters |-> <<>>, native |-> [ok |-> FALSE, err |-> NoError, sql |-> "", meta |-> ""],
   returned |-> [ok |-> FALSE, err |-> NoError, sql |-> "", meta |-> ""]]

\* Result of a single-shot operation.
OkQr(qr, n) == [tag |-> "Ok", qr |-> qr, rows |-> <<>>, err |-> NoError, pulled |-> n]
OkRows(rows, n) == [tag |-> "Ok", qr |-> DefaultQueryResult, rows |-> rows, err |-> NoError, pulled |-> n]
Fail(e, n) == [tag |-> "Err", qr |-> DefaultQueryResult, rows |-> <<>>, err |-> e, pulled |-> n]
NoResult == [tag |-> "-", qr |-> DefaultQueryResult, rows |-> <<>>, err |-> NoError, pulled |-> 0]

----------------------------------------------------------------------------
\* State

VARIABLES
  db,               \* the engine's answer for the SQL text
  op,               \* the most recent call
  query,            \* its query
  status,           \* "idle", or "live" / "exhausted" while a stream borrows the connection
  iter,             \* items the live stream's underlying iterator has yet to produce
  out,              \* items the live stream has handed to the caller
  result,           \* result of the most recent single-shot call
  engineCalls,      \* number of execute::iter invocations
  enginePersistent, \* persistent flag of the most recent invocation
  argsTaken,        \* take_arguments calls made by the most recent call
  cursor,           \* items of the cached statement stepped since its last reset
  limitPassed,      \* limit handed to SyncSqliteConnection::execute by the most recent call
  prepared          \* the most recent prepare / prepare_with: its inputs and outcome

vars == <<db, op, query, status, iter, out, result, engineCalls, enginePersistent, argsTaken,
          cursor, limitPassed, prepared>>

----------------------------------------------------------------------------
\* sqlx-sqlite/src/connection/sync.rs

\* take_arguments whose failure is lost: the query counts as having no arguments.
take_arguments_infallible(q) ==
  [ok |-> TRUE, err |-> NoError, some |-> (q.args = "some")]

\* query.take_arguments().map_err(Error::Encode)
take_arguments(q) ==
  IF q.args = "encode_err"
  THEN [ok |-> FALSE, err |-> EncodeError, some |-> FALSE]
  ELSE [ok |-> TRUE, err |-> NoError, some |-> (q.args = "some")]

\* The persistence hint passed on whether or not there are arguments.
persistent_ignores_arguments(q, arguments) == q.persistent

\* query.persistent() && arguments.is_some()
persistent(q, arguments) == q.persistent /\ arguments.some

\* The query runs on the cached statement.
cached(q) == take_arguments(q).ok /\ persistent(q, take_arguments(q))

\* execute::iter: a cached (persistent) statement is stepped on from its
\* cursor, any other statement is prepared anew.
engine_iter(d, persist, cur) ==
  IF d.ok /\ persist
  THEN [d EXCEPT !.items = SubSeq(d.items, cur + 1, Len(d.items))]
  ELSE d

\* Drop of the engine's iterator without releasing the statement's cursor.
statement_reset_keeps(cur) == cur

\* Drop of the engine's iterator: the statement is reset.
statement_reset(cur) == 0 * cur

\* let idx = 0;
idx == 0

\* The closure of .map(): idx is captured by value and never assigned.
limit_map(item) ==
  IF item.tag # "Err" /\ item.tag = "Right" THEN <<idx + 1, item>> ELSE <<idx, item>>

\* .map(..).take_while(|(idx, _)| *idx < limit).map(|(_, item)| item)
RECURSIVE limit_iter(_, _)
limit_iter(items, limit) ==
  IF items = <<>> THEN <<>>
  ELSE LET t == limit_map(Head(items))
       IN IF t[1] < limit THEN <<t[2]>> \o limit_iter(Tail(items), limit) ELSE <<>>

\* SyncSqliteConnection::execute
conn_execute(d, limit) ==
  IF ~d.ok THEN [ok |-> FALSE, err |-> d.err, iter |-> <<>>]
  ELSE IF limit # None
       THEN [ok |-> TRUE, err |-> NoError, iter |-> limit_iter(d.items, limit[1])]
       ELSE [ok |-> TRUE, err |-> NoError, iter |-> d.items]

\* fetch_many asking for one row only.
fetch_many_limit_one == Some(1)

\* The limit fetch_many passes to execute.
fetch_many_limit == None

\* fetch_optional asking execute to stop at one row.
fetch_optional_limit_one == Some(1)

\* The limit fetch_optional passes to execute.
fetch_optional_limit == None

\* Result::into_iter().flatten(): the iterator of Ok, nothing of Err.
into_iter_flatten(r) == IF r.ok THEN r.iter ELSE <<>>

\* SyncExecutor::fetch_many for &mut SyncSqliteConnection: the returned stream.
fetch_many(q, d) ==
  LET arguments == take_arguments(q)
  IN IF ~arguments.ok THEN <<Err(arguments.err)>>
     ELSE into_iter_flatten(conn_execute(d, fetch_many_limit))

\* The loop of fetch_optional with `if let Ok(Either::Right(row)) = res`:
\* an error item is passed over.
RECURSIVE fetch_optional_loop_skips_errors(_, _)
fetch_optional_loop_skips_errors(it, n) ==
  IF it = <<>> THEN OkRows(<<>>, n)
  ELSE LET res == Head(it)
       IN IF res.tag = "Right" THEN OkRows(<<res.row>>, n + 1)
          ELSE fetch_optional_loop_skips_errors(Tail(it), n + 1)

\* The loop of fetch_optional over the opened stream; n counts the items pulled.
RECURSIVE fetch_optional_loop(_, _)
fetch_optional_loop(it, n) ==
  IF it = <<>> THEN OkRows(<<>>, n)
  ELSE LET res == Head(it)
       IN IF res.tag = "Err" THEN Fail(res.err, n + 1)
          ELSE IF res.tag = "Right" THEN OkRows(<<res.row>>, n + 1)
          ELSE fetch_optional_loop(Tail(it), n + 1)

\* SyncExecutor::fetch_optional for &mut SyncSqliteConnection.
\* Ok(Some(row)) is rows = <<row>>, Ok(None) is rows = <<>>.
fetch_optional(q, d) ==
  LET arguments == take_arguments(q)
  IN IF ~arguments.ok THEN Fail(arguments.err, 0)
     ELSE LET r == conn_execute(d, fetch_optional_limit)
          IN IF ~r.ok THEN Fail(r.err, 0) ELSE fetch_optional_loop(r.iter, 0)

\* SyncSqliteConnection::prepare: the answer of worker::prepare as it is.
conn_prepare(native) == native

\* prepare_with handing on the engine's statement with the engine's text.
prepare_with_keeps_native_text(sql, parameters, native) == conn_prepare(native)

\* SyncExecutor::prepare_with for &mut SyncSqliteConnection
prepare_with(sql, parameters, native) ==
  LET statement == conn_prepare(native)
  IN IF ~statement.ok THEN statement
     ELSE [statement EXCEPT !.sql = sql]

----------------------------------------------------------------------------
\* sqlx-core/src/sync_executor.rs

\* execute_many's closure with `Err(_) => None`.
execute_many_closure_drops_errors(res) ==
  IF res.tag = "Err" THEN <<>>
  ELSE IF res.tag = "Left" THEN <<res>> ELSE <<>>

\* The closure of execute_many's filter_map: <<>> is None, <<x>> is Some(x).
execute_many_closure(res) ==
  IF res.tag = "Err" THEN <<res>>
  ELSE IF res.tag = "Left" THEN <<res>> ELSE <<>>

\* fetch's closure with the two arms of Either exchanged.
fetch_closure_swapped(res) ==
  IF res.tag = "Err" THEN <<res>>
  ELSE IF res.tag = "Left" THEN <<res>> ELSE <<>>

\* The closure of fetch's filter_map.
fetch_closure(res) ==
  IF res.tag = "Err" THEN <<res>>
  ELSE IF res.tag = "Left" THEN <<>> ELSE <<res>>

\* The adaptor each lazy operation puts on fetch_many's stream.
closure(kind, res) ==
  CASE kind = "execute_many" -> execute_many_closure(res)
    [] kind = "fetch" -> fetch_closure(res)
    [] OTHER -> <<res>>

\* Iterator::next of the lazy stream: pull the underlying iterator until the
\* closure keeps an item.  item is <<>> when the stream is finished.
RECURSIVE next(_, _)
next(kind, it) ==
  IF it = <<>> THEN [item |-> <<>>, rest |-> <<>>]
  ELSE LET m == closure(kind, Head(it))
       IN IF m # <<>> THEN [item |-> m, rest |-> Tail(it)]
          ELSE next(kind, Tail(it))

\* Extend<SqliteQueryResult> for SqliteQueryResult, one element.
extend(res, elem) ==
  [changes |-> res.changes + elem.changes, last_insert_rowid |-> elem.last_insert_rowid]

\* The loop of execute returning what it has merged when it meets an error.
RECURSIVE execute_loop_partial(_, _, _)
execute_loop_partial(it, res, total) ==
  LET n == next("execute_many", it)
  IN IF n.item = <<>> THEN OkQr(res, total)
     ELSE IF n.item[1].tag = "Err" THEN OkQr(res, total - Len(n.rest))
     ELSE execute_loop_partial(n.rest, extend(res, n.item[1].qr), total)

\* The loop of execute over execute_many's stream.
RECURSIVE execute_loop(_, _, _)
execute_loop(it, res, total) ==
  LET n == next("execute_many", it)
  IN IF n.item = <<>> THEN OkQr(res, total)
     ELSE IF n.item[1].tag = "Err" THEN Fail(n.item[1].err, total - Len(n.rest))
     ELSE execute_loop(n.rest, extend(res, n.item[1].qr), total)

\* SyncExecutor::execute
execute(q, d) ==
  LET s == fetch_many(q, d) IN execute_loop(s, DefaultQueryResult, Len(s))

\* collect that runs fetch's stream to its end before it reports the first error.
RECURSIVE collect_drains(_, _, _)
collect_drains(it, acc, total) ==
  LET n == next("fetch", it)
  IN IF n.item = <<>> THEN OkRows(acc, total)
     ELSE IF n.item[1].tag = "Err" THEN Fail(n.item[1].err, total)
     ELSE collect_drains(n.rest, Append(acc, n.item[1].row), total)

\* collect that keeps the rows gathered before an error.
RECURSIVE collect_partial(_, _, _)
collect_partial(it, acc, total) ==
  LET n == next("fetch", it)
  IN IF n.item = <<>> THEN OkRows(acc, total)
     ELSE IF n.item[1].tag = "Err" THEN OkRows(acc, total - Len(n.rest))
     ELSE collect_partial(n.rest, Append(acc, n.item[1].row), total)

\* collect::<Result<Vec<_>, _>>() over fetch's stream.
RECURSIVE collect(_, _, _)
collect(it, acc, total) ==
  LET n == next("fetch", it)
  IN IF n.item = <<>> THEN OkRows(acc, total)
     ELSE IF n.item[1].tag = "Err" THEN Fail(n.item[1].err, total - Len(n.rest))
     ELSE collect(n.rest, Append(acc, n.item[1].row), total)

\* SyncExecutor::fetch_all
fetch_all(q, d) ==
  LET s == fetch_many(q, d) IN collect(s, <<>>, Len(s))

\* fetch_one without ok_or_else: none is passed on as a success.
fetch_one_unchecked(q, d) == fetch_optional(q, d)

\* SyncExecutor::fetch_one
fetch_one(q, d) ==
  LET r == fetch_optional(q, d)
  IN IF r.tag = "Err" THEN r
     ELSE IF r.rows = <<>> THEN Fail(RowNotFound, r.pulled)
     ELSE r

\* SyncExecutor::prepare
prepare(sql, native) == prepare_with(sql, <<>>, native)

----------------------------------------------------------------------------
\* Actions

Init ==
  /\ db \in EngineOutcomes
  /\ op = "none"
  /\ query = [args |-> "none", persistent |-> FALSE]
  /\ status = "idle"
  /\ iter = <<>>
  /\ out = <<>>
  /\ result = NoResult
  /\ engineCalls = 0
  /\ enginePersistent = FALSE
  /\ argsTaken = 0
  /\ cursor = 0
  /\ limitPassed = None
  /\ prepared = NoPrepared

\* The engine's answer to the call of query q.
Answer(q) == engine_iter(db, cached(q), cursor)

\* A call taking the connection by shared reference: it does not wait for the
\* stream of the call before.
Enter_unguarded(name, q) ==
  /\ engineCalls < MaxEngineCalls
  /\ op' = name
  /\ query' = q
  /\ argsTaken' = 1
  /\ limitPassed' = IF name \in {"fetch_optional", "fetch_one"}
                    THEN fetch_optional_limit ELSE fetch_many_limit
  /\ LET arguments == take_arguments(q)
     IN IF arguments.ok
        THEN /\ engineCalls' = engineCalls + 1
             /\ enginePersistent' = persistent(q, arguments)
        ELSE UNCHANGED <<engineCalls, enginePersistent>>
  /\ UNCHANGED <<db, prepared>>

\* What every call does before its own work: it needs the connection (&mut),
\* takes the arguments once and, unless that fails, invokes the engine.
Enter(name, q) ==
  /\ status = "idle"
  /\ engineCalls < MaxEngineCalls
  /\ op' = name
  /\ query' = q
  /\ argsTaken' = 1
  /\ limitPassed' = IF name \in {"fetch_optional", "fetch_one"}
                    THEN fetch_optional_limit ELSE fetch_many_limit
  /\ LET arguments == take_arguments(q)
     IN IF arguments.ok
        THEN /\ engineCalls' = engineCalls + 1
             /\ enginePersistent' = persistent(q, arguments)
        ELSE UNCHANGED <<engineCalls, enginePersistent>>
  /\ UNCHANGED <<db, prepared>>

\* A lazy operation: the stream is returned and keeps the connection borrowed.
Open(name, q) ==
  /\ Enter(name, q)
  /\ status' = "live"
  /\ iter' = fetch_many(q, Answer(q))
  /\ out' = <<>>
  /\ result' = NoResult
  /\ UNCHANGED cursor

\* A single-shot operation: it runs to its result and releases the connection.
Run(name, q, r) ==
  /\ Enter(name, q)
  /\ status' = "idle"
  /\ iter' = <<>>
  /\ out' = <<>>
  /\ result' = r
  /\ cursor' = IF cached(q) THEN statement_reset(cursor + r.pulled) ELSE cursor

FetchMany(q) == Open("fetch_many", q)

Fetch(q) == Open("fetch", q)

ExecuteMany(q) == Open("execute_many", q)

Execute(q) == Run("execute", q, execute(q, Answer(q)))

FetchAll(q) == Run("fetch_all", q, fetch_all(q, Answer(q)))

FetchOne(q) == Run("fetch_one", q, fetch_one(q, Answer(q)))

FetchOptional(q) == Run("fetch_optional", q, fetch_optional(q, Answer(q)))

\* SyncSqliteConnection::execute called with a row limit: the arguments are
\* taken already, p is the persistent flag and L the limit.
ConnExecute(p, L) ==
  /\ status = "idle"
  /\ engineCalls < MaxEngineCalls
  /\ op' = "conn_execute"
  /\ engineCalls' = engineCalls + 1
  /\ enginePersistent' = p
  /\ limitPassed' = Some(L)
  /\ LET r == conn_execute(engine_iter(db, p, cursor), Some(L))
     IN IF r.ok
        THEN status' = "live" /\ iter' = r.iter /\ result' = NoResult
        ELSE status' = "idle" /\ iter' = <<>> /\ result' = Fail(r.err, 0)
  /\ out' = <<>>
  /\ UNCHANGED <<db, query, argsTaken, cursor, prepared>>

\* The held stream steps the cached statement.
OnCachedStatement ==
  IF op = "conn_execute" THEN enginePersistent ELSE cached(query)

\* prepare_with and prepare: they take the connection, ask the engine and
\* return; native is what worker::prepare answers.
Prepared(name, sql, parameters, native, returned) ==
  /\ status = "idle"
  /\ op' = name
  /\ prepared' = [sql |-> sql, parameters |-> parameters, native |-> native,
                  returned |-> returned]
  /\ UNCHANGED <<db, query, status, iter, out, result, engineCalls, enginePersistent,
                 argsTaken, cursor, limitPassed>>

PrepareWith(sql, parameters, native) ==
  Prepared("prepare_with", sql, parameters, native, prepare_with(sql, parameters, native))

Prepare(sql, native) ==
  Prepared("prepare", sql, <<>>, native, prepare(sql, native))

\* The caller pulls one item of the live stream.
IterNext ==
  /\ status = "live"
  /\ LET n == next(op, iter)
     IN /\ iter' = n.rest
        /\ IF n.item = <<>>
           THEN status' = "exhausted" /\ out' = out
           ELSE status' = "live" /\ out' = Append(out, n.item[1])
        /\ cursor' = IF OnCachedStatement THEN cursor + (Len(iter) - Len(n.rest)) ELSE cursor
  /\ UNCHANGED <<db, op, query, result, engineCalls, enginePersistent, argsTaken, limitPassed, prepared>>

\* The caller drops the stream, finished or not: the borrow ends.
IterDrop ==
  /\ status \in {"live", "exhausted"}
  /\ status' = "idle"
  /\ iter' = <<>>
  /\ cursor' = IF OnCachedStatement THEN statement_reset(cursor) ELSE cursor
  /\ UNCHANGED <<db, op, query, out, result, engineCalls, enginePersistent, argsTaken, limitPassed, prepared>>

Next ==
  \/ \E q \in Queries : FetchMany(q)
  \/ \E q \in Queries : Fetch(q)
  \/ \E q \in Queries : ExecuteMany(q)
  \/ \E q \in Queries : Execute(q)
  \/ \E q \in Queries : FetchAll(q)
  \/ \E q \in Queries : FetchOne(q)
  \/ \E q \in Queries : FetchOptional(q)
  \/ IterNext
  \/ IterDrop

Spec == Init /\ [][Next]_vars

\* SyncSqliteConnection::execute on its own, with every limit up to MaxLimit.
NextBridge ==
  \/ \E p \in BOOLEAN, L \in 1..MaxLimit : ConnExecute(p, L)
  \/ IterNext
  \/ IterDrop

SpecBridge == Init /\ [][NextBridge]_vars

\* Statement preparation on its own.
NextPrepare ==
  \/ \E sql \in Sqls, native \in PrepareOutcomes : Prepare(sql, native)
  \/ \E sql \in Sqls, parameters \in SeqsUpTo(TypeInfos, MaxParameters),
        native \in PrepareOutcomes : PrepareWith(sql, parameters, native)

\* Preparation does not read what the engine answers to execute::iter, so the
\* engine streams are left out of this specification.
InitPrepare == Init /\ db.items = <<>>

SpecPrepare == InitPrepare /\ [][NextPrepare]_vars

----------------------------------------------------------------------------
\* Vocabulary of the properties

\* The items of s whose tag is in tags, in order.
Keep(s, tags) == SelectSeq(s, LAMBDA x : x.tag \in tags)

\* Position of the first item of s whose tag is in tags; 0 when there is none.
FirstIndex(s, tags) ==
  IF \E i \in 1..Len(s) : s[i].tag \in tags
  THEN CHOOSE i \in 1..Len(s) :
         /\ s[i].tag \in tags
         /\ \A j \in 1..(i - 1) : s[j].tag \notin tags
  ELSE 0

RowValues(s) == [i \in 1..Len(s) |-> s[i].row]

RECURSIVE MergeInOrder(_)
MergeInOrder(s) ==
  IF s = <<>> THEN DefaultQueryResult
  ELSE extend(MergeInOrder(SubSeq(s, 1, Len(s) - 1)), s[Len(s)].qr)

\* The arguments of the most recent call's query could be taken.
ArgsBound == query.args # "encode_err"

\* A stream of the most recent call is held by the caller.
StreamHeld == status \in {"live", "exhausted"}

\* fetch_many's stream for the most recent call's query.
Stream == fetch_many(query, db)

\* The part of it the held stream has pulled so far.
Consumed == SubSeq(Stream, 1, Len(Stream) - Len(iter))

IsPrefix(s, t) == Len(s) <= Len(t) /\ s = SubSeq(t, 1, Len(s))

----------------------------------------------------------------------------
\* C1: when the arguments bind and the engine opens its result stream, the
\* stream fetch_many returns is the engine's stream item for item: what the
\* caller has received followed by what is still to come is always the
\* engine's sequence, a finished stream delivered all of it, and a dropped
\* one delivered a prefix of it.
FetchManyIsEngineStream ==
  (op = "fetch_many" /\ ArgsBound /\ db.ok) =>
     /\ StreamHeld => out \o iter = db.items
     /\ status = "exhausted" => out = db.items
     /\ IsPrefix(out, db.items)

FetchManyIsEngineStreamWitness ==
  /\ op = "fetch_many" /\ ArgsBound /\ db.ok
  /\ status = "exhausted"
  /\ Len(out) = 3
  /\ {out[i].tag : i \in 1..3} = {"Left", "Right", "Err"}

\* C2: fetch yields exactly the row items and the error items of fetch_many's
\* stream, in order, and no summary; an error item does not end the stream.
FetchIsRowsAndErrors ==
  (op = "fetch" /\ StreamHeld) =>
     /\ out = Keep(Consumed, {"Right", "Err"})
     /\ status = "exhausted" => out = Keep(Stream, {"Right", "Err"})
     /\ \A i \in 1..Len(out) : out[i].tag # "Left"

FetchIsRowsAndErrorsWitness ==
  /\ op = "fetch" /\ status = "exhausted"
  /\ Len(Stream) = 3 /\ Len(out) = 2
  /\ out[1].tag = "Err" /\ out[2].tag = "Right"

\* C3: execute_many yields exactly the summary items and the error items of
\* fetch_many's stream, in order, and no row; an error item stands at its
\* position and adds no summary.
ExecuteManyIsSummariesAndErrors ==
  (op = "execute_many" /\ StreamHeld) =>
     /\ out = Keep(Consumed, {"Left", "Err"})
     /\ status = "exhausted" => out = Keep(Stream, {"Left", "Err"})
     /\ \A i \in 1..Len(out) : out[i].tag # "Right"
     /\ Len(Keep(out, {"Left"})) = Len(Keep(Consumed, {"Left"}))

ExecuteManyIsSummariesAndErrorsWitness ==
  /\ op = "execute_many" /\ status = "exhausted"
  /\ Len(Stream) = 3 /\ Len(out) = 2
  /\ out[1].tag = "Err" /\ out[2].tag = "Left"
  /\ \E i \in 1..3 : Stream[i].tag = "Right"

\* C4: fetch_all is all-or-nothing: without an error item in fetch_many's
\* stream it returns all its rows in order, with one it returns the first
\* error and no rows.
FetchAllAllOrNothing ==
  op = "fetch_all" =>
     LET e == FirstIndex(Stream, {"Err"})
     IN IF e = 0
        THEN /\ result.tag = "Ok"
             /\ result.rows = RowValues(Keep(Stream, {"Right"}))
        ELSE /\ result.tag = "Err"
             /\ result.err = Stream[e].err
             /\ result.rows = <<>>

FetchAllAllOrNothingWitness ==
  /\ op = "fetch_all" /\ result.tag = "Err"
  /\ Len(Stream) = 3
  /\ Stream[1].tag = "Right" /\ Stream[2].tag = "Err" /\ Stream[3].tag = "Err"
  /\ Stream[2].err # Stream[3].err

\* C5: execute returns the merge, in stream order from the default summary, of
\* the summaries of the stream; the default summary when there is none; the
\* first error, and no partial merge, when the stream holds an error item.
ExecuteMergesSummaries ==
  op = "execute" =>
     LET e == FirstIndex(Stream, {"Err"})
     IN IF e = 0
        THEN /\ result.tag = "Ok"
             /\ result.qr = MergeInOrder(Keep(Stream, {"Left"}))
             /\ Keep(Stream, {"Left"}) = <<>> => result.qr = DefaultQueryResult
        ELSE /\ result.tag = "Err"
             /\ result.err = Stream[e].err
             /\ result.qr = DefaultQueryResult

ExecuteMergesSummariesWitness ==
  /\ op = "execute" /\ result.tag = "Ok"
  /\ Len(Keep(Stream, {"Left"})) = 2
  /\ Stream[1].tag = "Left" /\ Stream[1].qr # Stream[Len(Stream)].qr
  /\ result.qr.changes = 3
  /\ result.qr.last_insert_rowid = Stream[Len(Stream)].qr.last_insert_rowid

\* C6: when the engine's stream has a row item and no error item before it,
\* fetch_one and fetch_optional return that first row, whatever summaries
\* precede it and whatever follows it.
FetchOneReturnsFirstRow ==
  (op \in {"fetch_one", "fetch_optional"} /\ ArgsBound /\ db.ok) =>
     LET r == FirstIndex(db.items, {"Right"})
         e == FirstIndex(db.items, {"Err"})
     IN (r # 0 /\ (e = 0 \/ r < e)) =>
           /\ result.tag = "Ok"
           /\ result.rows = <<db.items[r].row>>

FetchOneReturnsFirstRowWitness ==
  /\ op = "fetch_one" /\ ArgsBound /\ db.ok
  /\ Len(db.items) = 3
  /\ db.items[1].tag = "Left" /\ db.items[2].tag = "Right" /\ db.items[3].tag = "Right"
  /\ db.items[2].row # db.items[3].row
  /\ result.rows = <<db.items[2].row>>

\* C7: when the engine's stream has no row item and no error item,
\* fetch_optional returns none and fetch_one fails with RowNotFound, which is
\* neither an engine error nor the encode error.
NoRowIsNoneOrRowNotFound ==
  (ArgsBound /\ db.ok /\ \A i \in 1..Len(db.items) : db.items[i].tag = "Left") =>
     /\ op = "fetch_optional" => result.tag = "Ok" /\ result.rows = <<>>
     /\ op = "fetch_one" =>
          /\ result.tag = "Err"
          /\ result.err = RowNotFound
          /\ result.err \notin EngineErrors \cup {EncodeError}

NoRowIsNoneOrRowNotFoundWitness ==
  /\ op = "fetch_one" /\ ArgsBound /\ db.ok
  /\ Len(db.items) = 2
  /\ \A i \in 1..Len(db.items) : db.items[i].tag = "Left"
  /\ result.err = RowNotFound

\* What a call whose arguments could not be taken has produced.
EncodeOutcome ==
  /\ (op = "fetch_many" /\ StreamHeld) => out \o iter = <<Err(EncodeError)>>
  /\ op \in {"fetch_optional", "fetch_one", "fetch_all", "execute"} =>
       result.tag = "Err" /\ result.err = EncodeError

\* C8: a call whose arguments cannot be taken never invokes the engine (the
\* invocation counter does not move); fetch_many's stream then has the encode
\* error as its only item and the single-shot operations return it.
EncodeFailureSkipsEngine ==
  [][query'.args = "encode_err" => (engineCalls' = engineCalls /\ EncodeOutcome')]_vars

EncodeFailureSkipsEngineWitness ==
  /\ op = "fetch_many" /\ query.args = "encode_err"
  /\ status = "exhausted"
  /\ out = <<Err(EncodeError)>>
  /\ engineCalls = 0
  /\ db.ok /\ Len(db.items) = 2

\* C9: when the engine fails to open the result stream, fetch_many's stream
\* holds that error as an item, fetch and execute_many surface it, and execute
\* and fetch_all return it, never a successful empty result.
OpenFailureIsSurfaced ==
  (ArgsBound /\ ~db.ok) =>
     /\ (op \in {"fetch_many", "fetch", "execute_many"} /\ status = "exhausted") =>
          out = <<Err(db.err)>>
     /\ op \in {"execute", "fetch_all"} => result.tag = "Err" /\ result.err = db.err

\* C10 as stated: an error item anywhere in the engine's stream makes
\* fetch_one and fetch_optional fail.
FetchOneFailsOnAnyError ==
  (op \in {"fetch_one", "fetch_optional"} /\ ArgsBound /\ db.ok
     /\ FirstIndex(db.items, {"Err"}) # 0) => result.tag = "Err"

\* C10 as amended: fetch_one and fetch_optional fail with the first error item
\* when it comes before the first row item (or there is no row); an error item
\* after the first row is not seen and the row is returned.
FetchOneFailsOnErrorBeforeRow ==
  (op \in {"fetch_one", "fetch_optional"} /\ ArgsBound /\ db.ok
     /\ FirstIndex(db.items, {"Err"}) # 0) =>
     LET r == FirstIndex(db.items, {"Right"})
         e == FirstIndex(db.items, {"Err"})
     IN IF r = 0 \/ e < r
        THEN result.tag = "Err" /\ result.err = db.items[e].err /\ result.rows = <<>>
        ELSE result.tag = "Ok" /\ result.rows = <<db.items[r].row>>

FetchOneFailsOnErrorBeforeRowWitness ==
  /\ op = "fetch_one" /\ ArgsBound /\ db.ok
  /\ Len(db.items) = 3
  /\ db.items[1].tag = "Left" /\ db.items[2].tag = "Err" /\ db.items[3].tag = "Right"
  /\ result.tag = "Err" /\ result.err = db.items[2].err

----------------------------------------------------------------------------
\* C11: in every call of fetch_many and fetch_optional that reaches the
\* engine the persistent flag passed is (persistence hint and arguments
\* present), so a query without arguments is never run as persistent, and the
\* arguments are taken exactly once by the call.
PersistentOnlyWithArguments ==
  (op \in {"fetch_many", "fetch_optional"} /\ ArgsBound) =>
     /\ enginePersistent = (query.persistent /\ query.args = "some")
     /\ query.args = "none" => ~enginePersistent
     /\ argsTaken = 1

PersistentOnlyWithArgumentsWitness ==
  /\ op = "fetch_optional" /\ query.args = "none" /\ query.persistent
  /\ engineCalls = 2
  /\ ~enginePersistent
  /\ argsTaken = 1

\* A step in which a call begins.
CallBegins ==
  \/ op' # op
  \/ query' # query
  \/ engineCalls' # engineCalls
  \/ result' # result
  \/ prepared' # prepared

\* C12: the connection serves one query at a time: a call begins only when no
\* stream of an earlier call holds the connection, that is after the stream
\* was dropped, and a single-shot call has left the connection free.
ConnectionServesOneQuery ==
  [][CallBegins => (status = "idle" /\ status' \in {"idle", "live"}
                      /\ (result' # NoResult => status' = "idle"))]_vars

ConnectionServesOneQueryWitness ==
  /\ op = "fetch" /\ status = "live"
  /\ engineCalls = 2
  /\ out # <<>> /\ iter # <<>>

\* C13: the same non-mutating query run again gives the same result, on the
\* cached and on the uncached path: a fetch_one directly after a fetch_one
\* returns the same row although the first left its stream unfinished, and a
\* fetch_all directly after a fetch_all returns the same rows.
SameQueryRepeats ==
  [][(/\ op \in {"fetch_one", "fetch_all"} /\ op' = op
      /\ engineCalls' = engineCalls + 1
      /\ ArgsBound /\ ArgsBound')
       => (result'.tag = result.tag /\ result'.rows = result.rows
             /\ result'.err = result.err)]_vars

SameQueryRepeatsWitness ==
  /\ op = "fetch_one" /\ query.args = "some" /\ query.persistent
  /\ engineCalls = 2
  /\ Len(db.items) = 3
  /\ db.items[1].tag = "Right" /\ db.items[2].tag = "Right"
  /\ db.items[1].row # db.items[2].row
  /\ result.rows = <<db.items[1].row>>
  /\ cursor = 0

----------------------------------------------------------------------------
\* C14: with a limit L >= 1 the stream execute returns is a prefix of the
\* engine's stream holding at most L row items; where it is cut, it is cut at
\* a row item, never at a summary.
LimitBoundsRows ==
  (op = "conn_execute" /\ db.ok /\ StreamHeld) =>
     LET s == out \o iter
     IN /\ IsPrefix(s, db.items)
        /\ Len(Keep(s, {"Right"})) <= limitPassed[1]
        /\ Len(s) < Len(db.items) => db.items[Len(s) + 1].tag = "Right"

\* C15: with limit 1, on an engine stream with a row item execute yields the
\* items up to and including the first row and nothing after it, so the first
\* row is found in the limited stream; on summaries only it yields them all.
LimitOneStopsAfterFirstRow ==
  (op = "conn_execute" /\ limitPassed = Some(1) /\ db.ok /\ StreamHeld) =>
     LET s == out \o iter
         r == FirstIndex(db.items, {"Right"})
     IN IF r # 0
        THEN s = SubSeq(db.items, 1, r) /\ FirstIndex(s, {"Right"}) = r
        ELSE s = db.items

----------------------------------------------------------------------------
\* C16: a single-shot operation stops pulling at its deciding item:
\* fetch_optional (and fetch_one through it) has pulled exactly the items up
\* to the first row or error item, execute and fetch_all exactly the items up
\* to the first error item; what the engine would produce after is not stepped.
EagerStopsAtDecidingItem ==
  (ArgsBound /\ db.ok) =>
     /\ op \in {"fetch_optional", "fetch_one"} =>
          LET k == FirstIndex(db.items, {"Right", "Err"})
          IN k # 0 => result.pulled = k
     /\ op \in {"execute", "fetch_all"} =>
          LET e == FirstIndex(db.items, {"Err"})
          IN e # 0 => result.pulled = e

EagerStopsAtDecidingItemWitness ==
  /\ op = "fetch_all" /\ ArgsBound /\ db.ok
  /\ Len(db.items) = 3
  /\ db.items[1].tag = "Right" /\ db.items[2].tag = "Err" /\ db.items[3].tag = "Left"
  /\ result.tag = "Err" /\ result.pulled = 2

----------------------------------------------------------------------------
\* Everything a lazy stream of the given kind yields when it is run to its end.
RECURSIVE Drain(_, _)
Drain(kind, it) ==
  LET n == next(kind, it)
  IN IF n.item = <<>> THEN <<>> ELSE <<n.item[1]>> \o Drain(kind, n.rest)

Count(s, v) == Cardinality({i \in 1..Len(s) : s[i] = v})

\* C17: fetch and execute_many partition fetch_many's stream of the same
\* query: each row is delivered by fetch only, each summary by execute_many
\* only, each error item by both, nothing else by either; the two lengths add
\* up to the length of the stream plus its number of error items.
FetchAndExecuteManyPartition ==
  (op \in {"fetch", "execute_many"} /\ status = "exhausted") =>
     LET f == IF op = "fetch" THEN out ELSE Drain("fetch", Stream)
         x == IF op = "execute_many" THEN out ELSE Drain("execute_many", Stream)
     IN /\ \A v \in Items \cup {Err(EncodeError)} :
             /\ v.tag = "Right" => Count(f, v) = Count(Stream, v) /\ Count(x, v) = 0
             /\ v.tag = "Left" => Count(x, v) = Count(Stream, v) /\ Count(f, v) = 0
             /\ v.tag = "Err" => Count(f, v) = Count(Stream, v) /\ Count(x, v) = Count(Stream, v)
        /\ \A i \in 1..Len(f) : \E j \in 1..Len(Stream) : Stream[j] = f[i]
        /\ \A i \in 1..Len(x) : \E j \in 1..Len(Stream) : Stream[j] = x[i]
        /\ Len(f) + Len(x) = Len(Stream) + Len(Keep(Stream, {"Err"}))

FetchAndExecuteManyPartitionWitness ==
  /\ op = "execute_many" /\ status = "exhausted"
  /\ Len(Stream) = 3
  /\ {Stream[i].tag : i \in 1..3} = {"Left", "Right", "Err"}
  /\ Len(out) = 2 /\ Len(Drain("fetch", Stream)) = 2

----------------------------------------------------------------------------
\* C18: fetch_optional agrees with fetch on every query and engine outcome:
\* it returns the row r exactly when fetch's stream begins with the row r, the
\* error e exactly when it begins with the error e, and none exactly when
\* fetch's stream is empty.
FetchOptionalAgreesWithFetch ==
  op = "fetch_optional" =>
     LET f == Drain("fetch", Stream)
     IN IF f = <<>> THEN result.tag = "Ok" /\ result.rows = <<>>
        ELSE IF f[1].tag = "Right" THEN result.tag = "Ok" /\ result.rows = <<f[1].row>>
        ELSE result.tag = "Err" /\ result.err = f[1].err

----------------------------------------------------------------------------
\* C19: prepare(sql) gives what prepare_with(sql, no hints) gives, and
\* prepare_with gives the same whatever the hints: when the engine prepares
\* the statement, the statement returned carries the caller's SQL text and the
\* engine's metadata; when it fails, that error and no statement.
PrepareRetagsStatement ==
  op \in {"prepare", "prepare_with"} =>
     LET n == prepared.native
         r == prepared.returned
     IN /\ IF n.ok
           THEN r.ok /\ r.sql = prepared.sql /\ r.meta = n.meta /\ r.err = NoError
           ELSE ~r.ok /\ r.err = n.err /\ r.sql = "" /\ r.meta = ""
        /\ \A h \in SeqsUpTo(TypeInfos, MaxParameters) :
             prepare_with(prepared.sql, h, n) = r
        /\ op = "prepare" => prepared.parameters = <<>>

PrepareRetagsStatementWitness ==
  /\ op = "prepare_with"
  /\ Len(prepared.parameters) = 2
  /\ prepared.native.ok
  /\ prepared.native.sql # prepared.sql
  /\ prepared.returned.sql = prepared.sql
  /\ prepared.returned.meta = prepared.native.meta

====
